---------------------------- MODULE Spec2Model ----------------------------
(***************************************************************************)
(* Launch / monitor / classify / retry harness of the g13_storage emulator *)
(* test scripts.                                                           *)
(*                                                                         *)
(* One variable `harness` selects which script is running:                 *)
(*   "rcg1"     check_some_c64_games.py  run_c64_game, first definition    *)
(*              (lines 77-116, with the archive fallback loop)             *)
(*   "rcg2"     check_some_c64_games.py  run_c64_game, second definition   *)
(*              (lines 453-472: the binding left when the module is loaded)*)
(*   "generic"  auto_test_emuelec.py     main -> run_one                   *)
(*   "c64batch" check_some_c64_games.py  main -> auto_test_emuelec.run_one *)
(*   "c64auto"  c64_autotest.py          main -> run_one -> wait_until_idle*)
(*   "amiga"    launch_amiga_rom.py      main -> test_rom -> kill_leftovers*)
(*                                                                         *)
(* Time is in whole seconds.  A launched process is described by the       *)
(* number of seconds it lives on its own (or that it never exits) and its  *)
(* exit code; both are chosen by the environment when it is spawned.       *)
(***************************************************************************)
EXTENDS Integers, Sequences, FiniteSets, TLC

\* ------------------------------------------------------------------------
\* Bounds of the model (not program constants)
\* ------------------------------------------------------------------------
\* longest archive (number of entries) handed to run_c64_game
MaxEntries == 3
\* largest number of titles a batch driver is given
MaxTitles == 2
\* largest number of lines the emulators append to a log during a run
MaxLog == 2
\* longest <extension> list of a configured platform
MaxExts == 2

\* ------------------------------------------------------------------------
\* Program constants
\* ------------------------------------------------------------------------
\* check_some_c64_games.py:24  very_short_secs: float = 3.0
very_short_secs == 3
\* auto_test_emuelec.py:25 (and the --timeout default, line 174)
TIMEOUT == 25
\* c64_autotest.py:15
CHECK_SEC == 5
\* launch_amiga_rom.py:23
WAIT_SEC == 10

\* check_some_c64_games.py:27-30
SUPPORTED_EXTS ==
    <<".d64", ".t64", ".tap", ".prg", ".g64", ".crt", ".p00", ".d71", ".d81">>

\* ------------------------------------------------------------------------
\* Input domains
\* ------------------------------------------------------------------------
\* seconds a spawned process lives when left alone
Lifetimes == {1, 3, 4, 30}
\* exit codes of a spawned process
Codes == {0, 2}
\* what a spawned process does when left alone: exit with `code` after
\* `life` seconds, or never exit
Behaviours ==
    { [exits |-> TRUE, life |-> l, code |-> c] : l \in Lifetimes, c \in Codes }
      \cup { [exits |-> FALSE, life |-> 0, code |-> 0] }

\* str.lower() on the extensions that occur in the model
Lower(s) ==
    CASE s = ".D64" -> ".d64"
      [] s = ".TAP" -> ".tap"
      [] OTHER -> s

\* Entries an archive may hold: name = dir/stem+ext, or a directory entry.
Entry(d, s, e, isd) == [dir |-> d, stem |-> s, ext |-> e, isdir |-> isd]
EntryPool ==
    { Entry("", "a", ".d64", FALSE),
      Entry("x", "a", ".d64", FALSE),
      Entry("", "b", ".D64", FALSE),
      Entry("", "r", ".txt", FALSE),
      Entry("x", "", "", TRUE) }

RECURSIVE SeqsUpTo(_, _)
SeqsUpTo(S, n) ==
    IF n = 0 THEN { <<>> }
    ELSE LET shorter == SeqsUpTo(S, n - 1)
         IN  shorter \cup
             { Append(q, x) : q \in { r \in shorter : Len(r) = n - 1 }, x \in S }

Archives == SeqsUpTo(EntryPool, MaxEntries)

\* Chunks of text an emulator may append to a log.
LogLines == {"ok", "Error", "panic"}

\* A title handed to run_c64_game: a zip archive with its entries, a file
\* that is no zip archive, a file that exists but cannot be opened for
\* reading, or a path that does not exist.
Rom(k, es) == [kind |-> k, entries |-> es]
Roms ==
    { Rom("zip", a) : a \in Archives }
      \cup { Rom("notzip", <<>>), Rom("unreadable", <<>>), Rom("missing", <<>>) }

\* A path: directory below the scratch directory ("" = the scratch
\* directory itself, "rom" = the title's own path) and file name.
PathOf(d, s, e) == [dir |-> d, stem |-> s, ext |-> e]
RomPath == PathOf("rom", "rom", "")

\* A title of a batch: game.zip holding a.d64 and b.D64.  The batch
\* drivers never look inside a title.
GameZip == Rom("zip", << Entry("", "a", ".d64", FALSE), Entry("", "b", ".D64", FALSE) >>)
BatchTitles == { [i \in 1..n |-> GameZip] : n \in 1..MaxTitles }

\* the harnesses that are batch drivers
Batch == {"generic", "c64batch", "c64auto", "amiga"}

NoProc == [exits |-> TRUE, life |-> 0, code |-> 0]

VARIABLES
    harness,     \* which script runs
    pc,          \* position of the running script
    titles,      \* the titles the run was given
    idx,         \* index of the title being tested (1-based)
    proc,        \* behaviour of the child spawned last, a member of Behaviours
    images,      \* run_c64_game: the extracted candidate paths
    ci,          \* run_c64_game: index of the candidate in flight
    scratch,     \* paths the extraction wrote below the scratch directory
    attempts,    \* launches made for the current title: <<[path, passed]>>
    att,         \* outcome of the latest finished attempt
    fault,       \* history: what the extraction ran into ("none")
    msg,         \* run_c64_game: the closing diagnostic it printed ("")
    ret,         \* run_c64_game: returned exit code (-1: none yet)
    exc,         \* exception that left the per-title operation ("none"),
                 \* an OSError labelled with the call that raised it
    log,         \* content of the log file the harness reads
    logExists,   \* whether that log file exists
    log_offset,  \* run_one: the offset recorded at launch
    launch_len,  \* history: length of the log when the child was spawned
    sigs,        \* signals the harness sent to its child in this attempt
    records,     \* rows the driver has produced: <<[status, reason]>>
    cfg,         \* start-up: the configuration source on disk
    args,        \* start-up: the command-line options of the driver
    fs,          \* start-up: the ROM directory on disk
    systems,     \* start-up: the platform configurations parsed
    rom_list,    \* start-up: the titles enumerated, in the order yielded
    exit_status, \* exit status of the driving process (-1: still running)
    message,     \* what the driver printed when it gave up ("")
    scanned,     \* history: the process table was scanned since the latest
                 \* attempt ended
    stray,       \* an emulator process spawned for an earlier attempt of this
                 \* run (the child or one of its descendants) is still alive
    opts,        \* repeated runs: -n and -r of check_some_c64_games.py
    stub,        \* repeated runs: what the emulator does for each title
    roms,        \* repeated runs: the titles this run tests, in order
    run,         \* repeated runs: 1 for the first run, 2 for the second
    first_records, \* repeated runs: the rows the first run produced
    table,       \* reaper: the processes alive whose command line matches
    listed,      \* reaper: the pids of the sweep's listing still to handle
    waited,      \* wait_until_idle: its local t, in half seconds slept
    sweeps,      \* history: kill sweeps begun in this cleanup
    denied       \* history: a PermissionError was swallowed in this cleanup

vars == <<harness, pc, titles, idx, proc, images, ci, scratch, fault, msg,
          attempts, att, ret, exc, log, logExists, log_offset, launch_len,
          sigs, records, cfg, args, fs, systems, rom_list, exit_status,
          message, scanned, stray, opts, stub, roms, run, first_records,
          table, listed, waited, sweeps, denied>>

sweepVars == <<table, listed, waited, sweeps, denied>>

detVars == <<opts, stub, roms, run, first_records>>

reapVars == <<scanned, stray>>
bootVars == <<cfg, args, fs, systems, rom_list, exit_status, message>>
rcgVars == <<images, ci, scratch, fault, msg, ret>>
logVars == <<log, logExists, log_offset, launch_len>>

Result(t, c, d, s, r) ==
    [terminal |-> t, code |-> c, dur |-> d, status |-> s, reason |-> r]
NoAtt == Result("none", 0, 0, "", "")

\* ------------------------------------------------------------------------
\* check_some_c64_games.py helpers
\* ------------------------------------------------------------------------
\* line 67: any(info.filename.lower().endswith(ext) for ext in SUPPORTED_EXTS)
IsSupported(e) ==
    \E k \in 1..Len(SUPPORTED_EXTS) : Lower(e.ext) = SUPPORTED_EXTS[k]

\* line 68: out_path = tmpdir / Path(info.filename).name
OutPath(e) == PathOf("", e.stem, e.ext)

\* line 69: zf.extract(info, tmpdir) writes tmpdir/info.filename
ExtractedPath(e) == PathOf(e.dir, e.stem, e.ext)

\* lines 64-70: the loop over zf.infolist(), entries 1..n processed
RECURSIVE ExtractLoop(_, _)
ExtractLoop(es, n) ==
    IF n = 0 THEN [images |-> <<>>, written |-> {}]
    ELSE LET prev == ExtractLoop(es, n - 1)
             e    == es[n]
         IN  IF e.isdir \/ ~IsSupported(e)
             THEN prev
             ELSE [images  |-> Append(prev.images, OutPath(e)),
                   written |-> prev.written \cup {ExtractedPath(e)}]

\* faulty variant: a title that is no archive is taken for its own image
extract_supported_images_AnyFile(r, failAt, bad) ==
    IF r.kind # "zip"
    THEN [images |-> << PathOf("rom", "rom", "") >>, written |-> {},
          raised |-> FALSE, fault |-> "none"]
    ELSE [images |-> ExtractLoop(r.entries, Len(r.entries)).images,
          written |-> ExtractLoop(r.entries, Len(r.entries)).written,
          raised |-> FALSE, fault |-> "none"]

\* lines 55-73: _extract_supported_images.  `failAt` is the entry whose
\* extraction raises (0: none, Len+1: never reached); `bad` says whether the
\* exception is zipfile.BadZipFile (caught at line 71) or another one
\* (propagates).  A file that is no zip raises BadZipFile at line 62; a
\* file that cannot be opened raises PermissionError there, which line 71
\* does not catch.
extract_supported_images(r, failAt, bad) ==
    IF r.kind = "unreadable"
    THEN [images |-> <<>>, written |-> {}, raised |-> TRUE, fault |-> "OSError"]
    ELSE IF r.kind # "zip"
    THEN [images |-> <<>>, written |-> {}, raised |-> FALSE, fault |-> "none"]
    ELSE LET n    == Len(r.entries)
             hit  == failAt \in 1..n /\ ~r.entries[failAt].isdir
                       /\ IsSupported(r.entries[failAt])
             done == IF hit THEN ExtractLoop(r.entries, failAt - 1)
                     ELSE ExtractLoop(r.entries, n)
         IN  [images |-> done.images, written |-> done.written,
              raised |-> hit /\ ~bad,
              fault  |-> IF ~hit THEN "none"
                         ELSE IF bad THEN "BadZipFile" ELSE "OSError"]

\* faulty variant: the duration is not looked at
Passed_CodeOnly(code, dur) == code = 0

\* lines 95 and 111: code == 0 and dur > very_short_secs
Passed(code, dur) == code = 0 /\ dur > very_short_secs

\* lines 94-96 and 109-113: one attempt of run_c64_game and its outcome
RcgResult(b) ==
    Result("COMPLETED", b.code, b.life,
           IF Passed(b.code, b.life) THEN "PASS" ELSE "FAIL", "")

\* ------------------------------------------------------------------------
\* Start-up of the drivers: configuration, platform selection, enumeration
\* ------------------------------------------------------------------------
\* One token of an <extension> element: its letters, with or without a
\* leading dot.
Tok(d, st) == [dot |-> d, stem |-> st]
ExtPool == { Tok(TRUE, "zip"), Tok(TRUE, "ZIP"), Tok(FALSE, "D64") }
ExtLists == SeqsUpTo(ExtPool, MaxExts)

\* str.lower() on the letters of an extension
LowerStem(st) ==
    CASE st = "ZIP" -> "zip"
      [] st = "D64" -> "d64"
      [] st = "TXT" -> "txt"
      [] OTHER -> st

\* A path: what it is anchored to ("root": absolute, "home": ~, "none":
\* relative) and the rest.  Path("") is the relative path ".".
FsPath(a, r) == [anchor |-> a, rel |-> r]
PathPool ==
    { FsPath("root", "roms/c64"), FsPath("home", "roms/c64"),
      FsPath("none", "roms/c64"), FsPath("none", "") }
IsAbsolute(p) == p.anchor = "root"

\* pathlib.Path.expanduser: only a leading ~ is replaced
expanduser(p) == IF p.anchor = "home" THEN FsPath("root", p.rel) ELSE p

\* One <system> element of es_systems.cfg.
SystemNode(n, p, e) == [name |-> n, path |-> p, extension |-> e]
SystemNames == {"c64", "psx", ""}
\* The configuration source: no file at any searched place, or a file with
\* no or one <system> element.
ConfigSources ==
    { [found |-> FALSE, nodes |-> <<>>], [found |-> TRUE, nodes |-> <<>>] }
      \cup { [found |-> TRUE, nodes |-> << SystemNode(n, p, e) >>] :
                n \in SystemNames, p \in PathPool, e \in ExtLists }

\* An entry below the ROM directory, in the order the directory is walked.
DirEntry(st, sx, f) == [stem |-> st, suffix |-> sx, isfile |-> f]
DirPool ==
    << DirEntry("a", "zip", TRUE), DirEntry("b", "ZIP", TRUE),
       DirEntry("d", "zip", FALSE), DirEntry("r", "txt", TRUE) >>
\* The entries of DirPool at the indexes in `ix`, walk order kept.
RECURSIVE Walk(_, _)
Walk(ix, n) ==
    IF n = 0 THEN <<>>
    ELSE IF n \in ix THEN Append(Walk(ix, n - 1), DirPool[n])
    ELSE Walk(ix, n - 1)
RomDirs ==
    { [exists |-> FALSE, entries |-> <<>>] }
      \cup { [exists |-> TRUE, entries |-> Walk(ix, Len(DirPool))] :
                ix \in SUBSET (1..Len(DirPool)) }

\* -s/--system of auto_test_emuelec.py (line 172): not given, or one name
SystemArgs == { <<>>, <<"c64">> }

NoCfg == [found |-> FALSE, nodes |-> <<>>]
NoDir == [exists |-> FALSE, entries |-> <<>>]

\* auto_test_emuelec.py lines 62-63 (check_some_c64_games.py 536-537):
\* the dot is prefixed when missing, then the extension is lower-cased
NormExt(t) == Tok(TRUE, LowerStem(t.stem))

\* the list comprehensions of lines 62-63 over ext_raw.split()
RECURSIVE NormExts(_)
NormExts(ts) ==
    IF ts = <<>> THEN <<>> ELSE <<NormExt(Head(ts))>> \o NormExts(Tail(ts))

\* auto_test_emuelec.py lines 53-73 (check_some_c64_games.py 527-547): the
\* loop over the <system> elements; one without a name is skipped
RECURSIVE parse_systems(_)
parse_systems(nodes) ==
    IF nodes = <<>> THEN <<>>
    ELSE LET sys == Head(nodes)
         IN  (IF sys.name = "" THEN <<>>
              ELSE << [name |-> sys.name,
                       rom_dir |-> expanduser(sys.path),
                       ext |-> NormExts(sys.extension)] >>)
             \o parse_systems(Tail(nodes))

\* c64_autotest.py lines 25-31: get_sys_info keeps path and extensions of
\* the system named "c64" as they are written
RECURSIVE get_sys_info(_)
get_sys_info(nodes) ==
    IF nodes = <<>> THEN <<>>
    ELSE IF Head(nodes).name = "c64"
    THEN << [name |-> "c64", rom_dir |-> Head(nodes).path,
             ext |-> Head(nodes).extension] >>
    ELSE get_sys_info(Tail(nodes))

\* pathlib's rglob("*" + ext) on a case-sensitive file system: the name
\* ends with the letters of ext exactly
GlobMatches(e, ext) == e.suffix = ext.stem

\* auto_test_emuelec.py lines 96-98: the files one pattern yields
RECURSIVE rglob_files(_, _)
rglob_files(entries, ext) ==
    IF entries = <<>> THEN <<>>
    ELSE (IF GlobMatches(Head(entries), ext) /\ Head(entries).isfile
          THEN <<Head(entries)>> ELSE <<>>)
         \o rglob_files(Tail(entries), ext)

\* auto_test_emuelec.py lines 93-98: one walk per configured extension
RECURSIVE iter_roms_exts(_, _)
iter_roms_exts(dir, exts) ==
    IF exts = <<>> THEN <<>>
    ELSE rglob_files(dir.entries, Head(exts)) \o iter_roms_exts(dir, Tail(exts))

\* auto_test_emuelec.py lines 81-98: iter_roms over the selected platforms
RECURSIVE iter_roms(_, _)
iter_roms(syss, dir) ==
    IF syss = <<>> THEN <<>>
    ELSE (IF ~dir.exists THEN <<>> ELSE iter_roms_exts(dir, Head(syss).ext))
         \o iter_roms(Tail(syss), dir)

\* p.suffix.lower() in exts
SuffixLowerIn(e, exts) ==
    \E k \in 1..Len(exts) : exts[k] = Tok(TRUE, LowerStem(e.suffix))

\* check_some_c64_games.py lines 186-192: list_roms
RECURSIVE list_roms(_, _)
list_roms(entries, exts) ==
    IF entries = <<>> THEN <<>>
    ELSE (IF Head(entries).isfile /\ SuffixLowerIn(Head(entries), exts)
          THEN <<Head(entries)>> ELSE <<>>)
         \o list_roms(Tail(entries), exts)

\* c64_autotest.py lines 49-51: the directory scan; f.endswith(e) on the
\* extensions as written, directories not told from files
RECURSIVE scan_dir(_, _)
scan_dir(entries, exts) ==
    IF entries = <<>> THEN <<>>
    ELSE (IF \E k \in 1..Len(exts) : Head(entries).suffix = exts[k].stem
          THEN <<Head(entries)>> ELSE <<>>)
         \o scan_dir(Tail(entries), exts)

\* launch_amiga_rom.py lines 41-43: all_roms
AmigaExts == << Tok(TRUE, "zip"), Tok(TRUE, "adf"), Tok(TRUE, "lha"), Tok(TRUE, "adz") >>
RECURSIVE all_roms(_)
all_roms(entries) ==
    IF entries = <<>> THEN <<>>
    ELSE (IF SuffixLowerIn(Head(entries), AmigaExts)
          THEN <<Head(entries)>> ELSE <<>>)
         \o all_roms(Tail(entries))

\* The start-up variables of a run whose start-up is over.
BootIdle ==
    /\ cfg = NoCfg
    /\ args = <<>>
    /\ fs = NoDir
    /\ systems = <<>>
    /\ rom_list = <<>>
    /\ exit_status = -1
    /\ message = ""

\* ------------------------------------------------------------------------
\* Repeated runs over one title set with a stubbed emulator
\* ------------------------------------------------------------------------
\* The title set, already sorted (list_roms, line 192): titles 1..MaxTitles.
TitleSet == [i \in 1..MaxTitles |-> i]

\* What a stubbed emulator, started for a title, does: how long it lives,
\* how it exits and what it appends to the log.
StubBehaviours ==
    { [exits |-> TRUE, life |-> 1, code |-> 0, writes |-> w] : w \in { <<>>, <<"Error">> } }
      \cup { [exits |-> TRUE, life |-> 4, code |-> 0, writes |-> w] : w \in { <<>>, <<"panic">> } }
      \cup { [exits |-> FALSE, life |-> 0, code |-> 0, writes |-> <<>>] }
Stubs == [1..MaxTitles -> StubBehaviours]

\* -n N (0: not given) and -r of check_some_c64_games.py, lines 263-266
Options == { [num |-> n, random |-> r] : n \in 0..MaxTitles, r \in BOOLEAN }
NoOptions == [num |-> 0, random |-> FALSE]

\* names tempfile.mkstemp may give the log of an Amiga attempt
TmpNames == {"puae_1.log", "puae_2.log"}

Min(a, b) == IF a < b THEN a ELSE b

\* the sequences of k distinct elements of sequence q
Samples(q, k) ==
    { [i \in 1..k |-> q[f[i]]] :
        f \in { g \in [1..k -> 1..Len(q)] :
                  \A i, j \in 1..k : i # j => g[i] # g[j] } }

\* faulty variant: the titles are drawn at random whether or not -r is given
Selections_AlwaysRandom(q, o) ==
    IF o.num = 0 THEN { q } ELSE Samples(q, Min(o.num, Len(q)))

\* check_some_c64_games.py lines 287-291: the titles a run may test
Selections(q, o) ==
    IF o.num = 0 THEN { q }
    ELSE IF o.random THEN Samples(q, Min(o.num, Len(q)))
    ELSE { SubSeq(q, 1, Min(o.num, Len(q))) }

DetIdle ==
    /\ opts = NoOptions
    /\ stub = <<>>
    /\ roms = <<>>
    /\ run = 0
    /\ first_records = <<>>

\* The variables of the step-by-step reaper where it is not followed step
\* by step.
SweepIdle ==
    /\ table = {}
    /\ listed = <<>>
    /\ waited = 0
    /\ sweeps = 0
    /\ denied = FALSE

\* ------------------------------------------------------------------------
\* Initial state
\* ------------------------------------------------------------------------
InitialLogs == { <<>>, <<"Error">> }

Init ==
    /\ harness \in {"rcg1", "rcg2"} \cup Batch
    /\ titles \in IF harness \in Batch THEN BatchTitles ELSE { <<r>> : r \in Roms }
    /\ idx = 1
    /\ pc = "start"
    /\ proc = NoProc
    /\ images = <<>>
    /\ ci = 0
    /\ scratch = {}
    /\ fault = "none"
    /\ msg = ""
    /\ attempts = <<>>
    /\ att = NoAtt
    /\ ret = -1
    /\ exc = "none"
    /\ log \in IF harness \in {"generic", "c64batch", "c64auto"}
                THEN InitialLogs ELSE { <<>> }
    /\ logExists \in IF log # <<>> THEN {TRUE}
                      ELSE IF harness \in {"generic", "c64batch", "c64auto"}
                      THEN BOOLEAN ELSE {FALSE}
    /\ log_offset = 0
    /\ launch_len = 0
    /\ sigs = <<>>
    /\ records = <<>>
    /\ scanned = FALSE
    /\ stray = FALSE
    /\ BootIdle
    /\ DetIdle
    /\ SweepIdle

rom == titles[idx]

\* ------------------------------------------------------------------------
\* run_c64_game, first definition (lines 77-116)
\* ------------------------------------------------------------------------
\* lines 84-94 (first definition) and 460-471 (second definition), up to
\* the call of subprocess.run: existence check, dry run, spawn of the direct
\* attempt
RcgStart ==
    /\ harness \in {"rcg1", "rcg2"}
    /\ pc = "start"
    /\ \E dry_run \in BOOLEAN, spawnOk \in BOOLEAN, b \in Behaviours :
          IF rom.kind = "missing"
          THEN /\ pc' = "raised" /\ exc' = "FileNotFoundError"
               /\ UNCHANGED <<proc, ret>>
          ELSE IF dry_run
          THEN /\ pc' = "done" /\ ret' = 0
               /\ UNCHANGED <<proc, exc>>
          ELSE IF ~spawnOk
          THEN /\ pc' = "raised" /\ exc' = "OSError:spawn"
               /\ UNCHANGED <<proc, ret>>
          ELSE /\ pc' = "direct"
               /\ proc' = b
               /\ UNCHANGED <<ret, exc>>
    /\ UNCHANGED <<bootVars, detVars, sweepVars, reapVars, harness, titles, idx, images, ci, scratch, fault, msg,
                   attempts, att, logVars, sigs, records>>

\* faulty variant: the direct attempt's code returned as it is
CodeOr1_AsIs(code) == code

\* line 104: return code or 1
CodeOr1(code) == IF code # 0 THEN code ELSE 1

\* lines 94-109: the direct attempt ends; on failure extract and launch the
\* first candidate
Rcg1DirectReturns ==
    /\ harness = "rcg1"
    /\ pc = "direct"
    /\ proc.exits
    /\ att' = RcgResult(proc)
    /\ attempts' = Append(attempts,
                     [path |-> RomPath, passed |-> Passed(proc.code, proc.life)])
    /\ IF Passed(proc.code, proc.life)
       THEN /\ pc' = "done" /\ ret' = proc.code
            /\ proc' = proc
            /\ UNCHANGED <<images, ci, scratch, fault, msg, exc>>
       ELSE \E failAt \in 0..Len(rom.entries), bad \in BOOLEAN,
               spawnOk \in BOOLEAN, b \in Behaviours :
               LET x == extract_supported_images(rom, failAt, bad)
               IN  /\ scratch' = x.written
                   /\ fault' = x.fault
                   /\ IF x.raised
                      THEN /\ pc' = "raised" /\ exc' = "OSError:extract"
                           /\ proc' = proc
                           /\ UNCHANGED <<images, ci, ret, msg>>
                      ELSE IF x.images = <<>>
                      THEN /\ pc' = "done"
                           /\ msg' = "no image"
                           /\ ret' = CodeOr1(proc.code)
                           /\ proc' = proc
                           /\ UNCHANGED <<images, ci, exc>>
                      ELSE IF ~spawnOk
                      THEN /\ pc' = "raised" /\ exc' = "OSError:spawn"
                           /\ images' = x.images
                           /\ proc' = proc
                           /\ UNCHANGED <<ci, ret, msg>>
                      ELSE /\ pc' = "cand"
                           /\ images' = x.images
                           /\ ci' = 1
                           /\ proc' = b
                           /\ UNCHANGED <<ret, exc, msg>>
    /\ UNCHANGED <<bootVars, detVars, sweepVars, harness, titles, idx, logVars, sigs, records>>
    /\ scanned' = FALSE
    /\ stray' = stray

\* faulty variant: the loop goes on after a passing candidate
AfterCandidate_NoStop(i, n, code2, dur2) ==
    IF i < n THEN "next"
    ELSE IF code2 = 0 /\ dur2 > very_short_secs THEN "ok"
    ELSE "exhausted"

\* lines 111-116: what the loop does once candidate `i` of `n` has ended
\* with (code2, dur2): "ok" (return 0), "next" (launch candidate i + 1) or
\* "exhausted" (return 1)
AfterCandidate(i, n, code2, dur2) ==
    IF Passed(code2, dur2) THEN "ok"
    ELSE IF i < n THEN "next"
    ELSE "exhausted"

\* lines 106-116: candidate `ci` ends; stop on success, else launch the next
\* one or give up
Rcg1CandReturns ==
    /\ harness = "rcg1"
    /\ pc = "cand"
    /\ proc.exits
    /\ att' = RcgResult(proc)
    /\ attempts' = Append(attempts,
                     [path |-> images[ci], passed |-> Passed(proc.code, proc.life)])
    /\ LET step == AfterCandidate(ci, Len(images), proc.code, proc.life)
       IN  IF step = "ok"
           THEN /\ pc' = "done" /\ ret' = 0 /\ msg' = "ok"
                /\ proc' = proc
                /\ UNCHANGED <<ci, exc>>
           ELSE IF step = "exhausted"
           THEN /\ pc' = "done" /\ ret' = 1 /\ msg' = "exhausted"
                /\ proc' = proc
                /\ UNCHANGED <<ci, exc>>
           ELSE \E spawnOk \in BOOLEAN, b \in Behaviours :
                   IF ~spawnOk
                   THEN /\ pc' = "raised" /\ exc' = "OSError:spawn"
                        /\ proc' = proc
                        /\ UNCHANGED <<ci, ret, msg>>
                   ELSE /\ pc' = "cand"
                        /\ ci' = ci + 1
                        /\ proc' = b
                        /\ UNCHANGED <<ret, exc, msg>>
    /\ UNCHANGED <<bootVars, detVars, sweepVars, harness, titles, idx, images, scratch, fault, logVars, sigs,
                   records>>
    /\ scanned' = FALSE
    /\ stray' = stray

\* ------------------------------------------------------------------------
\* run_c64_game, second definition (lines 453-472): the name's final binding
\* ------------------------------------------------------------------------
\* lines 471-472: result = subprocess.run(cmd); return result.returncode
Rcg2DirectReturns ==
    /\ harness = "rcg2"
    /\ pc = "direct"
    /\ proc.exits
    /\ att' = Result("COMPLETED", proc.code, proc.life,
                     IF proc.code = 0 THEN "PASS" ELSE "FAIL", "")
    /\ attempts' = Append(attempts,
                     [path |-> RomPath, passed |-> proc.code = 0])
    /\ pc' = "done"
    /\ ret' = proc.code
    /\ proc' = proc
    /\ UNCHANGED <<bootVars, detVars, sweepVars, harness, titles, idx, images, ci, scratch, fault, msg, exc,
                   logVars, sigs, records>>
    /\ scanned' = FALSE
    /\ stray' = stray

\* ------------------------------------------------------------------------
\* Batch drivers: what they share
\* ------------------------------------------------------------------------
\* the process is still running `secs` seconds after it was spawned
AliveAt(b, secs) == ~(b.exits /\ b.life < secs)

\* f.seek(off); f.read()
ReadFrom(lg, off) == SubSeq(lg, off + 1, Len(lg))

\* faulty variant: one row per launch and one more for the title
MainRecords_RowPerAttempt(res) ==
    /\ records' = records \o << [status |-> res.status, reason |-> res.reason],
                                [status |-> res.status, reason |-> res.reason] >>
    /\ IF idx = Len(titles)
       THEN pc' = "done" /\ idx' = idx
       ELSE pc' = "start" /\ idx' = idx + 1

\* The driver's loop appends one row and moves on to the next title
\* (auto_test_emuelec.py 201-207, check_some_c64_games.py 299-308,
\* c64_autotest.py 129-133, launch_amiga_rom.py 105-109).
MainRecords(res) ==
    /\ records' = Append(records, [status |-> res.status, reason |-> res.reason])
    /\ IF idx = Len(titles)
       THEN pc' = "done" /\ idx' = idx
       ELSE pc' = "start" /\ idx' = idx + 1

\* An emulator in flight appends a chunk to the log.
EmuWrite ==
    /\ harness \in Batch
    /\ pc = "wait"
    /\ Len(log) < MaxLog
    /\ \E line \in LogLines : log' = Append(log, line)
    /\ logExists' = TRUE
    /\ UNCHANGED <<bootVars, detVars, sweepVars, reapVars, harness, pc, titles, idx, proc, rcgVars, attempts, att, exc,
                   log_offset, launch_len, sigs, records>>

\* ------------------------------------------------------------------------
\* auto_test_emuelec.py: run_one (102-153), called by its own main and by
\* the main of check_some_c64_games.py (line 300)
\* ------------------------------------------------------------------------
\* line 27: ERROR_PAT, matched against one chunk
ERROR_PAT_matches(line) == line = "Error"

\* faulty variant: only the first chunk is searched
ERROR_PAT_search_FirstChunk(text) ==
    IF text # <<>> /\ Head(text) = "Error" THEN Head(text) ELSE ""

\* lines 145-148: m = ERROR_PAT.search(new_logs); m.group(0), "" for no match
RECURSIVE ERROR_PAT_search(_)
ERROR_PAT_search(text) ==
    IF text = <<>> THEN ""
    ELSE IF ERROR_PAT_matches(Head(text)) THEN Head(text)
    ELSE ERROR_PAT_search(Tail(text))

\* lines 129-153: the wait and the classification.  `readFails`: opening,
\* seeking or reading the log raises.
run_one_result(b, lg, exists, off, readFails) ==
    IF AliveAt(b, TIMEOUT)
    THEN Result("STILL_ALIVE", 0, TIMEOUT, "FAIL", "TIMEOUT")
    ELSE LET m == ERROR_PAT_search(ReadFrom(lg, off))
         IN  IF exists /\ readFails
             THEN Result("COMPLETED", b.code, b.life, "FAIL", "log read error")
             ELSE IF exists /\ m # ""
             THEN Result("COMPLETED", b.code, b.life, "FAIL", m)
             ELSE Result("COMPLETED", b.code, b.life, "PASS", "")

\* faulty variant: the log is read from its start
run_one_offset_Zero(lg, exists) == 0

\* lines 121-123: the offset recorded at launch
run_one_offset(lg, exists) == IF exists THEN Len(lg) ELSE 0

\* lines 118-128: record the log offset and spawn the child
run_one_launch ==
    /\ harness \in {"generic", "c64batch"}
    /\ pc = "start"
    /\ \E statFails \in BOOLEAN, spawnOk \in BOOLEAN, b \in Behaviours :
          IF logExists /\ statFails
          THEN /\ pc' = "raised" /\ exc' = "OSError:log"
               /\ UNCHANGED <<proc, log_offset, launch_len, attempts, sigs>>
          ELSE /\ log_offset' = run_one_offset(log, logExists)
               /\ IF ~spawnOk
                  THEN /\ pc' = "raised" /\ exc' = "OSError:spawn"
                       /\ UNCHANGED <<proc, launch_len, attempts, sigs>>
                  ELSE /\ pc' = "wait"
                       /\ proc' = b
                       /\ launch_len' = Len(log)
                       /\ attempts' = <<>>
                       /\ sigs' = <<>>
                       /\ exc' = exc
    /\ UNCHANGED <<bootVars, detVars, sweepVars, reapVars, harness, titles, idx, rcgVars, att, log, logExists, records>>

\* lines 129-153 and the driver's row
run_one_finish ==
    /\ harness \in {"generic", "c64batch"}
    /\ pc = "wait"
    /\ \E readFails \in BOOLEAN :
          LET res == run_one_result(proc, log, logExists, log_offset, readFails)
          IN  /\ att' = res
              /\ attempts' = Append(attempts,
                               [path |-> RomPath, passed |-> res.status = "PASS"])
              /\ sigs' = IF res.reason = "TIMEOUT" THEN <<"KILL">> ELSE sigs
              /\ MainRecords(res)
    /\ proc' = proc
    /\ UNCHANGED <<bootVars, detVars, sweepVars, harness, titles, rcgVars, exc, logVars>>
    /\ scanned' = FALSE
    /\ \E orphan \in BOOLEAN : stray' = (stray \/ orphan)

\* ------------------------------------------------------------------------
\* The reapers
\* ------------------------------------------------------------------------
\* c64_autotest.py lines 74-86: wait_until_idle.  `running`: a process
\* matching MATCH_WORDS is alive when it is called; `leaves`: it goes away
\* by itself within max_wait; `permitted`: os.kill is allowed on it
\* (PermissionError is swallowed, line 84).  The value says whether a
\* matching process is alive when the function returns.
wait_until_idle(running, leaves, permitted) ==
    IF ~running THEN FALSE
    ELSE IF leaves THEN FALSE
    ELSE ~permitted

\* launch_amiga_rom.py lines 52-57: kill_leftovers, one sweep with SIGKILL
kill_leftovers(running, permitted) == running /\ ~permitted

\* ------------------------------------------------------------------------
\* c64_autotest.py: run_one (89-116)
\* ------------------------------------------------------------------------
\* lines 101-105
c64_run_one_result(b) ==
    LET alive == AliveAt(b, CHECK_SEC)
    IN  IF alive
        THEN Result("STILL_ALIVE", 0, CHECK_SEC, "PASS", "alive=True")
        ELSE Result("COMPLETED", b.code, b.life, "FAIL", "alive=False")

\* lines 90-98
c64_run_one_launch ==
    /\ harness = "c64auto"
    /\ pc = "start"
    /\ \E spawnOk \in BOOLEAN, b \in Behaviours :
          IF ~spawnOk
          THEN /\ pc' = "raised" /\ exc' = "OSError:spawn"
               /\ UNCHANGED <<proc, launch_len, attempts, sigs>>
          ELSE /\ pc' = "wait"
               /\ proc' = b
               /\ launch_len' = Len(log)
               /\ attempts' = <<>>
               /\ sigs' = <<>>
               /\ exc' = exc
    /\ UNCHANGED <<bootVars, detVars, sweepVars, reapVars, harness, titles, idx, rcgVars, att, log, logExists,
                   log_offset, records>>

\* lines 100-105
c64_run_one_check ==
    /\ harness = "c64auto"
    /\ pc = "wait"
    /\ att' = c64_run_one_result(proc)
    /\ attempts' = Append(attempts,
                     [path |-> RomPath, passed |-> att'.status = "PASS"])
    /\ pc' = "cleanup"
    /\ UNCHANGED <<bootVars, detVars, sweepVars, harness, titles, idx, proc, rcgVars, exc, logVars, sigs,
                   records>>
    /\ scanned' = FALSE
    /\ stray' = stray

\* lines 107-116 and the driver's row.  `obeys`: the child exits within the
\* 5 s that follow SIGINT.
c64_run_one_cleanup ==
    /\ harness = "c64auto"
    /\ pc = "cleanup"
    /\ \E obeys \in BOOLEAN :
          sigs' = IF att.terminal = "STILL_ALIVE"
                  THEN (IF obeys THEN <<"INT">> ELSE <<"INT", "KILL">>)
                  ELSE sigs
    /\ proc' = proc
    /\ MainRecords(att)
    /\ UNCHANGED <<bootVars, detVars, sweepVars, harness, titles, rcgVars, attempts, att, exc, logVars>>
    /\ scanned' = TRUE
    /\ \E orphan \in BOOLEAN, leaves \in BOOLEAN :
          stray' = wait_until_idle(stray \/ orphan, leaves, TRUE)

\* ------------------------------------------------------------------------
\* launch_amiga_rom.py: test_rom (60-90)
\* ------------------------------------------------------------------------
\* lines 26-27: BAD_RE (re.I), matched against one chunk
BAD_RE_matches(line) == line = "panic"

\* line 79: bool(BAD_RE.search(lf.read()))
BAD_RE_search(text) == \E k \in 1..Len(text) : BAD_RE_matches(text[k])

\* faulty variant: the liveness test is inverted
test_rom_result_Inverted(b, lg) ==
    LET alive == ~(b.exits /\ b.life < WAIT_SEC)
        bad   == \E k \in 1..Len(lg) : lg[k] = "panic"
    IN  [terminal |-> IF alive THEN "STILL_ALIVE" ELSE "COMPLETED",
         code |-> IF alive THEN 0 ELSE b.code,
         dur |-> IF alive THEN WAIT_SEC ELSE b.life,
         status |-> IF ~alive /\ ~bad THEN "PASS" ELSE "FAIL",
         reason |-> IF alive THEN (IF bad THEN "alive=True bad=True"
                                   ELSE "alive=True bad=False")
                    ELSE (IF bad THEN "alive=False bad=True"
                          ELSE "alive=False bad=False")]

\* lines 76-82
test_rom_result(b, lg) ==
    LET alive == AliveAt(b, WAIT_SEC)
        bad   == BAD_RE_search(lg)
        term  == IF alive THEN "STILL_ALIVE" ELSE "COMPLETED"
        dur   == IF alive THEN WAIT_SEC ELSE b.life
    IN  Result(term, IF alive THEN 0 ELSE b.code, dur,
               IF alive /\ ~bad THEN "PASS" ELSE "FAIL",
               IF alive THEN (IF bad THEN "alive=True bad=True"
                              ELSE "alive=True bad=False")
               ELSE (IF bad THEN "alive=False bad=True"
                     ELSE "alive=False bad=False"))

\* lines 61-73: a fresh log file per attempt, then the spawn
test_rom_launch ==
    /\ harness = "amiga"
    /\ pc = "start"
    /\ \E openFails \in BOOLEAN, spawnOk \in BOOLEAN, b \in Behaviours :
          IF openFails
          THEN /\ pc' = "raised" /\ exc' = "OSError:log"
               /\ UNCHANGED <<proc, log, logExists, launch_len, attempts, sigs>>
          ELSE /\ log' = <<>>
               /\ logExists' = TRUE
               /\ launch_len' = 0
               /\ IF ~spawnOk
                  THEN /\ pc' = "raised" /\ exc' = "OSError:spawn"
                       /\ UNCHANGED <<proc, attempts, sigs>>
                  ELSE /\ pc' = "wait"
                       /\ proc' = b
                       /\ attempts' = <<>>
                       /\ sigs' = <<>>
                       /\ exc' = exc
    /\ UNCHANGED <<bootVars, detVars, sweepVars, reapVars, harness, titles, idx, rcgVars, att, log_offset, records>>

\* lines 75-82
test_rom_check ==
    /\ harness = "amiga"
    /\ pc = "wait"
    /\ \E readFails \in BOOLEAN :
          IF readFails
          THEN /\ pc' = "raised" /\ exc' = "OSError:log"
               /\ UNCHANGED <<att, attempts>>
          ELSE /\ att' = test_rom_result(proc, log)
               /\ attempts' = Append(attempts,
                                [path |-> RomPath, passed |-> att'.status = "PASS"])
               /\ pc' = "cleanup"
               /\ exc' = exc
    /\ UNCHANGED <<bootVars, detVars, sweepVars, harness, titles, idx, proc, rcgVars, logVars, sigs, records>>
    /\ scanned' = (IF pc' = "cleanup" THEN FALSE ELSE scanned)
    /\ stray' = stray

\* lines 84-90 and the driver's row
test_rom_cleanup ==
    /\ harness = "amiga"
    /\ pc = "cleanup"
    /\ \E obeys \in BOOLEAN :
          sigs' = IF att.terminal = "STILL_ALIVE"
                  THEN (IF obeys THEN <<"INT">> ELSE <<"INT", "KILL">>)
                  ELSE sigs
    /\ proc' = proc
    /\ MainRecords(att)
    /\ UNCHANGED <<bootVars, detVars, sweepVars, harness, titles, rcgVars, attempts, att, exc, logVars>>
    /\ scanned' = TRUE
    /\ \E orphan \in BOOLEAN : stray' = kill_leftovers(stray \/ orphan, TRUE)

Next ==
    \/ RcgStart
    \/ Rcg1DirectReturns
    \/ Rcg1CandReturns
    \/ Rcg2DirectReturns
    \/ EmuWrite
    \/ run_one_launch
    \/ run_one_finish
    \/ c64_run_one_launch
    \/ c64_run_one_check
    \/ c64_run_one_cleanup
    \/ test_rom_launch
    \/ test_rom_check
    \/ test_rom_cleanup

Spec == Init /\ [][Next]_vars

\* The same runs with the harness never stopping while it has a step to
\* take: the scripts are sequential programs that run on.
LiveSpec == Spec /\ WF_vars(Next)


\* ------------------------------------------------------------------------
\* Start-up of a driver, up to its loop over the titles
\* ------------------------------------------------------------------------
\* The variables of the title loop before the loop has begun.
RunIdle ==
    /\ titles = <<>>
    /\ idx = 1
    /\ proc = NoProc
    /\ images = <<>>
    /\ ci = 0
    /\ scratch = {}
    /\ fault = "none"
    /\ msg = ""
    /\ attempts = <<>>
    /\ att = NoAtt
    /\ ret = -1
    /\ exc = "none"
    /\ log = <<>>
    /\ logExists = FALSE
    /\ log_offset = 0
    /\ launch_len = 0
    /\ sigs = <<>>
    /\ records = <<>>
    /\ scanned = FALSE
    /\ stray = FALSE
    /\ DetIdle
    /\ SweepIdle

runVars == <<titles, idx, proc, rcgVars, attempts, att, exc, logVars, sigs,
             records, reapVars, detVars, sweepVars>>

BootInit ==
    /\ harness \in Batch
    /\ pc = IF harness = "amiga" THEN "selected" ELSE "boot"
    /\ cfg \in IF harness = "amiga" THEN {NoCfg} ELSE ConfigSources
    /\ args \in IF harness = "generic" THEN SystemArgs ELSE { <<>> }
    /\ fs \in RomDirs
    /\ systems = <<>>
    /\ rom_list = <<>>
    /\ exit_status = -1
    /\ message = ""
    /\ RunIdle

\* The driving process ends: `st` is its exit status, `m` what it printed.
\* An exception nobody catches and SystemExit with a text both give status 1
\* and the text on stderr; a plain return from main gives status 0.
Exits(st, m) ==
    /\ pc' = "exited"
    /\ exit_status' = st
    /\ message' = m

\* auto_test_emuelec.py lines 185 and 46-77, check_some_c64_games.py
\* line 273, c64_autotest.py lines 22-32
main_parse ==
    /\ harness \in {"generic", "c64batch", "c64auto"}
    /\ pc = "boot"
    /\ LET parsed == IF harness = "c64auto" THEN get_sys_info(cfg.nodes)
                     ELSE parse_systems(cfg.nodes)
       IN  IF ~cfg.found
           THEN Exits(1, "FileNotFoundError") /\ systems' = systems
           ELSE IF parsed = <<>>
           THEN Exits(1, "RuntimeError") /\ systems' = systems
           ELSE /\ systems' = parsed
                /\ pc' = IF harness = "c64auto" THEN "selected" ELSE "parsed"
                /\ UNCHANGED <<exit_status, message>>
    /\ UNCHANGED <<harness, cfg, args, fs, rom_list, runVars>>

\* lower_map / "kw in sys_lower" of find_c64_name for the names of the model
IsC64Name(n) == n = "c64"

\* check_some_c64_games.py lines 196-214: find_c64_name
RECURSIVE find_c64_name(_)
find_c64_name(syss) ==
    IF syss = <<>> THEN <<>>
    ELSE IF IsC64Name(Head(syss).name) THEN <<Head(syss)>>
    ELSE find_c64_name(Tail(syss))

\* auto_test_emuelec.py line 190: the platforms named by -s
RECURSIVE FilterSystems(_, _)
FilterSystems(syss, sel) ==
    IF syss = <<>> THEN <<>>
    ELSE (IF \E k \in 1..Len(sel) : sel[k] = Head(syss).name
          THEN <<Head(syss)>> ELSE <<>>)
         \o FilterSystems(Tail(syss), sel)

\* auto_test_emuelec.py lines 188-192, check_some_c64_games.py lines 274-280
main_select ==
    /\ harness \in {"generic", "c64batch"}
    /\ pc = "parsed"
    /\ LET kept == IF harness = "c64batch" THEN find_c64_name(systems)
                   ELSE IF args = <<>> THEN systems
                   ELSE FilterSystems(systems, args)
       IN  IF kept = <<>>
           THEN Exits(1, "no platform") /\ systems' = systems
           ELSE /\ systems' = kept
                /\ pc' = "selected"
                /\ UNCHANGED <<exit_status, message>>
    /\ UNCHANGED <<harness, cfg, args, fs, rom_list, runVars>>

\* what the enumerator of each driver yields (c64_autotest.py: with no
\* gamelist.xml, lines 48-51)
Enumerate ==
    CASE harness = "generic" -> iter_roms(systems, fs)
      [] harness = "c64batch" -> list_roms(fs.entries, systems[1].ext)
      [] harness = "c64auto" -> scan_dir(fs.entries, systems[1].ext)
      [] OTHER -> all_roms(fs.entries)

\* auto_test_emuelec.py lines 194-196, check_some_c64_games.py lines
\* 282-284, c64_autotest.py lines 122-125, launch_amiga_rom.py lines 97-99.
\* os.listdir and Path.iterdir raise for a directory that does not exist.
main_enumerate ==
    /\ pc = "selected"
    /\ harness \in Batch
    /\ IF harness \in {"c64auto", "amiga"} /\ ~fs.exists
       THEN Exits(1, "FileNotFoundError") /\ rom_list' = rom_list
       ELSE /\ rom_list' = Enumerate
            /\ IF rom_list' # <<>>
               THEN pc' = "start" /\ UNCHANGED <<exit_status, message>>
               ELSE IF harness \in {"generic", "c64batch"}
               THEN Exits(1, "no roms")
               ELSE Exits(0, "no roms")
    /\ UNCHANGED <<harness, cfg, args, fs, systems, runVars>>

BootNext ==
    \/ main_parse
    \/ main_select
    \/ main_enumerate

BootSpec == BootInit /\ [][BootNext]_vars


\* ------------------------------------------------------------------------
\* Two runs of a driver, one after the other, over the same title set
\* ------------------------------------------------------------------------
DetInit ==
    /\ harness \in Batch
    /\ pc = "select"
    /\ run = 1
    /\ opts \in IF harness = "c64batch" THEN Options ELSE { NoOptions }
    /\ stub \in Stubs
    /\ roms = <<>>
    /\ first_records = <<>>
    /\ titles = <<>> /\ idx = 1 /\ proc = NoProc
    /\ images = <<>> /\ ci = 0 /\ scratch = {} /\ fault = "none" /\ msg = ""
    /\ attempts = <<>> /\ att = NoAtt /\ ret = -1 /\ exc = "none"
    /\ log = <<>> /\ logExists \in BOOLEAN
    /\ log_offset = 0 /\ launch_len = 0
    /\ sigs = <<>> /\ records = <<>>
    /\ scanned = FALSE /\ stray = FALSE
    /\ BootIdle
    /\ SweepIdle

\* check_some_c64_games.py lines 282-296 (the other drivers test every
\* title they enumerated): the titles of this run
det_select ==
    /\ pc = "select"
    /\ roms' \in Selections(TitleSet, opts)
    /\ records' = <<>>
    /\ idx' = 1
    /\ pc' = "loop"
    /\ UNCHANGED <<bootVars, sweepVars, reapVars, opts, stub, run, first_records, harness,
                   titles, proc, rcgVars, attempts, att, exc, logVars, sigs>>

\* The row a driver writes for title t when the emulator behaves as b and
\* the log is lg before the launch; `nm` is the name mkstemp gave the log.
DetRow(t, b, lg, exists, nm) ==
    LET res == CASE harness \in {"generic", "c64batch"} ->
                      run_one_result(b, lg \o b.writes,
                                     exists \/ b.writes # <<>>,
                                     run_one_offset(lg, exists), FALSE)
                 [] harness = "c64auto" -> c64_run_one_result(b)
                 [] OTHER -> test_rom_result(b, b.writes)
    IN  [title |-> t, status |-> res.status, reason |-> res.reason,
         logname |-> IF harness = "amiga" THEN nm ELSE ""]

\* one iteration of the driver's loop: the per-title call and its row
\* (auto_test_emuelec.py 201-207, check_some_c64_games.py 299-308,
\* c64_autotest.py 129-133, launch_amiga_rom.py 105-109)
det_title ==
    /\ pc = "loop"
    /\ LET t == roms[idx]
           b == stub[t]
       IN  /\ \E nm \in TmpNames :
                 records' = Append(records, DetRow(t, b, log, logExists, nm))
           /\ IF harness = "amiga"
              THEN UNCHANGED <<log, logExists>>
              ELSE /\ log' = log \o b.writes
                   /\ logExists' = (logExists \/ b.writes # <<>>)
    /\ IF idx = Len(roms) THEN pc' = "ran" /\ idx' = idx
       ELSE pc' = "loop" /\ idx' = idx + 1
    /\ UNCHANGED <<bootVars, sweepVars, reapVars, detVars, harness, titles, proc, rcgVars,
                   attempts, att, exc, log_offset, launch_len, sigs>>

\* the harness is started again on the unchanged title set
det_rerun ==
    /\ pc = "ran"
    /\ run = 1
    /\ first_records' = records
    /\ run' = 2
    /\ pc' = "select"
    /\ UNCHANGED <<bootVars, sweepVars, reapVars, opts, stub, roms, harness, titles, idx,
                   proc, rcgVars, attempts, att, exc, logVars, sigs, records>>

DetNext ==
    \/ det_select
    \/ det_title
    \/ det_rerun

DetSpec == DetInit /\ [][DetNext]_vars


\* ------------------------------------------------------------------------
\* The cleanup of c64_autotest.py and launch_amiga_rom.py, step by step
\* ------------------------------------------------------------------------
\* c64_autotest.py line 74: def wait_until_idle(max_wait=10), seconds
max_wait == 10

\* The processes whose command line holds one of MATCH_WORDS / PROC_KEYS:
\* "own" is an emulator this run spawned and SIGKILL ends it; "foreign"
\* belongs to another user, os.kill on it raises PermissionError; "stuck"
\* accepts the signal and stays (uninterruptible).
Matching == {"own", "foreign", "stuck"}

\* os.listdir("/proc") gives the pids in no particular order
Orders(S) ==
    { q \in [1..Cardinality(S) -> S] :
        \A i, j \in 1..Cardinality(S) : i # j => q[i] # q[j] }

\* c64_autotest.py lines 70-72: still_running().  A pid that goes away
\* while the table is read has the command line "" (line 67-68).
still_running(tb) == tb # {}

\* faulty variant: the loop polls for as long as a process matches
wait_until_idle_polls_NoDeadline(tb, tt) == still_running(tb)

\* c64_autotest.py line 76: while still_running() and t < max_wait, with t
\* counted in the half seconds of line 77-78
wait_until_idle_polls(tb, tt) == still_running(tb) /\ tt < 2 * max_wait

\* faulty variant: a swallowed PermissionError turns the verdict into FAIL
run_one_return_FailOnDenied(res, den) ==
    IF den THEN [res EXCEPT !.status = "FAIL", !.reason = "cleanup"] ELSE res

\* c64_autotest.py line 116 `return result, detail` and launch_amiga_rom.py
\* line 90: the pair computed at lines 104-105 / 81-82, whatever the cleanup
\* met (`den`: it swallowed a PermissionError)
run_one_return(res, den) == res

\* c64_autotest.py lines 129-133, launch_amiga_rom.py lines 105-109: the
\* call returns and the driver writes the row
ReaperReturns == MainRecords(run_one_return(att, denied))

ReapInit ==
    /\ harness \in {"c64auto", "amiga"}
    /\ titles \in BatchTitles
    /\ idx = 1
    /\ pc = "start"
    /\ proc = NoProc
    /\ images = <<>> /\ ci = 0 /\ scratch = {} /\ fault = "none" /\ msg = ""
    /\ attempts = <<>> /\ att = NoAtt /\ ret = -1 /\ exc = "none"
    /\ log = <<>> /\ logExists = FALSE
    /\ log_offset = 0 /\ launch_len = 0
    /\ sigs = <<>> /\ records = <<>>
    /\ scanned = FALSE /\ stray = FALSE
    /\ table \in SUBSET {"foreign", "stuck"}
    /\ listed = <<>>
    /\ waited = 0
    /\ sweeps = 0
    /\ denied = FALSE
    /\ BootIdle
    /\ DetIdle

\* c64_autotest.py lines 108-113, launch_amiga_rom.py lines 84-87: SIGINT to
\* a child that is alive, SIGKILL when it has not gone within 5 s.
\* `obeys`: the child exits within those 5 s; `orphan`: an emulator the
\* child started is left behind.
run_one_signal ==
    /\ harness \in {"c64auto", "amiga"}
    /\ pc = "cleanup"
    /\ \E obeys \in BOOLEAN :
          sigs' = IF att.terminal = "STILL_ALIVE"
                  THEN (IF obeys THEN <<"INT">> ELSE <<"INT", "KILL">>)
                  ELSE sigs
    /\ \E orphan \in BOOLEAN :
          table' = table \cup (IF orphan THEN {"own"} ELSE {})
    /\ pc' = IF harness = "c64auto" THEN "poll" ELSE "list"
    /\ listed' = <<>>
    /\ waited' = 0
    /\ sweeps' = 0
    /\ denied' = FALSE
    /\ UNCHANGED <<bootVars, detVars, reapVars, harness, titles, idx, proc,
                   rcgVars, attempts, att, exc, logVars, records>>

\* c64_autotest.py lines 75-78: one turn of the poll loop
wait_until_idle_poll ==
    /\ harness = "c64auto"
    /\ pc = "poll"
    /\ IF wait_until_idle_polls(table, waited)
       THEN /\ waited' = waited + 1
            /\ pc' = pc
       ELSE /\ waited' = waited
            /\ pc' = "recheck"
    /\ UNCHANGED <<bootVars, detVars, reapVars, harness, titles, idx, proc,
                   rcgVars, attempts, att, exc, logVars, sigs, records,
                   table, listed, sweeps, denied>>

\* c64_autotest.py line 79: the second still_running(); nothing matches:
\* wait_until_idle returns and run_one returns (line 116)
wait_until_idle_recheck ==
    /\ harness = "c64auto"
    /\ pc = "recheck"
    /\ IF still_running(table)
       THEN /\ pc' = "list"
            /\ UNCHANGED <<idx, records>>
       ELSE ReaperReturns
    /\ UNCHANGED <<bootVars, detVars, reapVars, harness, titles, proc,
                   rcgVars, attempts, att, exc, logVars, sigs, sweepVars>>

\* c64_autotest.py line 80, launch_amiga_rom.py line 53: os.listdir("/proc")
sweep_list ==
    /\ harness \in {"c64auto", "amiga"}
    /\ pc = "list"
    /\ listed' \in Orders(table)
    /\ sweeps' = sweeps + 1
    /\ pc' = "inspect"
    /\ UNCHANGED <<bootVars, detVars, reapVars, harness, titles, idx, proc,
                   rcgVars, attempts, att, exc, logVars, sigs, records,
                   table, waited, denied>>

\* c64_autotest.py line 81, launch_amiga_rom.py line 54: the next pid of
\* the listing and its command line; a pid that has gone reads as "" and is
\* passed over.  After the last pid: sleep (c64_autotest.py line 86) and
\* return.
sweep_inspect ==
    /\ harness \in {"c64auto", "amiga"}
    /\ pc = "inspect"
    /\ IF listed = <<>>
       THEN /\ ReaperReturns
            /\ listed' = listed
       ELSE /\ IF Head(listed) \in table
               THEN pc' = "kill" /\ listed' = listed
               ELSE pc' = pc /\ listed' = Tail(listed)
            /\ UNCHANGED <<idx, records>>
    /\ UNCHANGED <<bootVars, detVars, reapVars, harness, titles, proc,
                   rcgVars, attempts, att, exc, logVars, sigs,
                   table, waited, sweeps, denied>>

\* c64_autotest.py lines 82-85, launch_amiga_rom.py lines 55-57:
\* os.kill(pid, SIGKILL) with PermissionError swallowed.  For a pid that
\* has gone os.kill raises ProcessLookupError, which nothing catches.
sweep_kill ==
    /\ harness \in {"c64auto", "amiga"}
    /\ pc = "kill"
    /\ LET pid == Head(listed)
       IN  IF pid \notin table
           THEN /\ pc' = "raised"
                /\ exc' = "OSError:kill"
                /\ UNCHANGED <<table, listed, denied>>
           ELSE /\ pc' = "inspect"
                /\ exc' = exc
                /\ listed' = Tail(listed)
                /\ denied' = (denied \/ pid = "foreign")
                /\ table' = IF pid = "own" THEN table \ {pid} ELSE table
    /\ UNCHANGED <<bootVars, detVars, reapVars, harness, titles, idx, proc,
                   rcgVars, attempts, att, logVars, sigs, records,
                   waited, sweeps>>

\* The rest of the system: a matching process that can exit does so on its
\* own while the cleanup is under way.
process_exits ==
    /\ harness \in {"c64auto", "amiga"}
    /\ pc \in {"poll", "recheck", "list", "inspect", "kill"}
    /\ \E pid \in table \ {"stuck"} : table' = table \ {pid}
    /\ UNCHANGED <<bootVars, detVars, reapVars, harness, pc, titles, idx,
                   proc, rcgVars, attempts, att, exc, logVars, sigs, records,
                   listed, waited, sweeps, denied>>

\* the steps of the script itself
ReapScript ==
    \/ c64_run_one_launch
    \/ c64_run_one_check
    \/ test_rom_launch
    \/ test_rom_check
    \/ run_one_signal
    \/ wait_until_idle_poll
    \/ wait_until_idle_recheck
    \/ sweep_list
    \/ sweep_inspect
    \/ sweep_kill

ReapNext == ReapScript \/ process_exits

ReapSpec == ReapInit /\ [][ReapNext]_vars

\* The script runs on while it has a step to take; nothing is assumed of
\* the other processes.
ReapLiveSpec == ReapSpec /\ WF_vars(ReapScript)

\* ------------------------------------------------------------------------
\* Vocabulary of the properties
\* ------------------------------------------------------------------------
Rcg == {"rcg1", "rcg2"}

\* The image extensions the resolver is to recognize, case-insensitively.
RecognizedExts ==
    {".d64", ".t64", ".tap", ".prg", ".g64", ".crt", ".p00", ".d71", ".d81"}
Recognized(e) == ~e.isdir /\ Lower(e.ext) \in RecognizedExts

\* The recognized image entries of an archive, in the archive's own order.
CandidateEntries(r) == SelectSeq(r.entries, Recognized)

\* No two entries of the archive have the same full name.
DistinctNames(r) ==
    \A i, j \in 1..Len(r.entries) : i # j => r.entries[i] # r.entries[j]

\* Every launch made for the current title so far, the one in flight included.
LaunchedPaths ==
    [k \in 1..Len(attempts) |-> attempts[k].path]
      \o (IF pc = "direct" THEN <<RomPath>>
          ELSE IF pc = "cand" THEN <<images[ci]>>
          ELSE <<>>)

\* The per-title operation has returned: run_c64_game has, or run_one has
\* and the driver holds its row.
TitleDone ==
    IF harness \in Rcg THEN pc = "done"
    ELSE pc \in {"start", "done"} /\ records # <<>>

\* The title that operation was given.
DoneRom == IF harness \in Rcg THEN titles[1] ELSE titles[Len(records)]

\* The title's final verdict.
Verdict ==
    IF harness \in Rcg THEN (IF ret = 0 THEN "PASS" ELSE "FAIL")
    ELSE records[Len(records)].status

\* The direct launch ended within the minimum-liveness time or with a
\* non-zero exit code.
DirectLaunchFailed ==
    IF harness = "rcg1" THEN attempts # <<>> /\ ~attempts[1].passed
    ELSE /\ Len(attempts) = 1
         /\ att.terminal = "COMPLETED"
         /\ ~(att.code = 0 /\ att.dur > very_short_secs)

\* ------------------------------------------------------------------------
\* C1  For an archive title whose direct launch fails, the harness extracts
\*     the archive and launches the contained images one after another until
\*     one succeeds or all have failed, both in run_c64_game as the module
\*     finally binds it and in the per-title call of the batch driver.
\*     (Stated for an extraction that met no error.)
\* ------------------------------------------------------------------------
C1_FallbackAfterFailedDirect ==
    ( /\ harness \in {"rcg1", "rcg2", "c64batch"}
      /\ TitleDone
      /\ exc = "none" /\ fault = "none"
      /\ DoneRom.kind = "zip"
      /\ CandidateEntries(DoneRom) # <<>>
      /\ DirectLaunchFailed )
    => /\ Len(attempts) >= 2
       /\ (Verdict = "PASS" <=> attempts[Len(attempts)].passed)
       /\ (Verdict = "FAIL" => Len(attempts) = 1 + Len(CandidateEntries(DoneRom)))

\* The same statement for the first definition alone, which has the loop.
C1_FirstDefinitionOnly == harness = "rcg1" => C1_FallbackAfterFailedDirect

C3_ExhaustionEachOnce ==
    ( /\ harness = "rcg1" /\ pc = "done"
      /\ exc = "none" /\ fault = "none"
      /\ rom.kind = "zip" /\ DistinctNames(rom)
      /\ CandidateEntries(rom) # <<>>
      /\ attempts # <<>>
      /\ \A k \in 1..Len(attempts) : ~attempts[k].passed )
    => /\ ret # 0 /\ msg = "exhausted"
       /\ Len(attempts) = 1 + Len(CandidateEntries(rom))
       /\ \A i, j \in 2..Len(attempts) :
             i # j => attempts[i].path # attempts[j].path

\* ------------------------------------------------------------------------
\* C4  An archive without any recognized image entry yields FAIL with an
\*     outcome distinguishable from exhaustion, and no fallback launch.
\* ------------------------------------------------------------------------
NoImageCase ==
    /\ harness = "rcg1" /\ pc = "done" /\ exc = "none"
    /\ rom.kind = "zip"
    /\ CandidateEntries(rom) = <<>>
    /\ attempts # <<>> /\ ~attempts[1].passed

\* what run_c64_game returns when the candidates are exhausted (line 116)
ExhaustedReturn == 1

Signatures(h) == IF h = "amiga" THEN {"panic"} ELSE {"Error"}

\* What was appended to the log since the child was spawned.
NewBytes == SubSeq(log, launch_len + 1, Len(log))
NewSignature == \E k \in 1..Len(NewBytes) : NewBytes[k] \in Signatures(harness)

\* The latest attempt has its verdict, and `proc`, `log` and `launch_len`
\* are still those of that attempt.
Classified == att.terminal # "none" /\ pc \in {"cleanup", "start", "done"}

\* The deadline at which a harness looks at its child, and the time below
\* which an exit counts as early.
Deadline(h) ==
    CASE h \in {"generic", "c64batch"} -> TIMEOUT
      [] h = "c64auto" -> CHECK_SEC
      [] h = "amiga" -> WAIT_SEC
      [] OTHER -> very_short_secs
MinLiveness(h) ==
    CASE h = "c64auto" -> CHECK_SEC
      [] h = "amiga" -> WAIT_SEC
      [] OTHER -> very_short_secs

StillAliveAtDeadline == ~(proc.exits /\ proc.life < Deadline(harness))
CompletedEarly == proc.exits /\ proc.life < MinLiveness(harness)

\* A reason that names no failure.
ReasonNone == att.reason \in {"", "alive=True", "alive=True bad=False"}

C7_OnlyNewBytesDecide ==
    /\ ( harness \in {"generic", "c64batch"} /\ pc = "wait" )
       => log_offset = launch_len
    /\ ( /\ harness \in {"generic", "c64batch"} /\ Classified
         /\ att.status = "FAIL"
         /\ att.reason \notin {"TIMEOUT", "log read error"} )
       => \E k \in 1..Len(NewBytes) : NewBytes[k] = att.reason
    /\ ( /\ harness \in {"generic", "c64batch"} /\ Classified
         /\ ~StillAliveAtDeadline /\ ~NewSignature
         /\ att.reason # "log read error" )
       => att.status = "PASS"
    /\ ( /\ harness = "amiga" /\ Classified
         /\ att.reason \in {"alive=True bad=True", "alive=False bad=True"} )
       => NewSignature

\* A signature lies entirely before the offset and the attempt passes.
C7_Witness ==
    /\ harness = "generic" /\ Classified
    /\ launch_len >= 1
    /\ \E k \in 1..launch_len : log[k] \in Signatures(harness)
    /\ NewBytes # <<>>
    /\ att.status = "PASS"

C9_LogErrorsNeverPropagate == pc = "raised" => exc # "OSError:log"

\* ------------------------------------------------------------------------
\* C10 No per-title failure aborts the run: each becomes a FAIL verdict and
\*     a run over N titles produces N verdicts.
\* ------------------------------------------------------------------------
C10_NoTitleFailureAborts ==
    /\ pc # "raised"
    /\ (harness \in Batch /\ pc = "done") => Len(records) = Len(titles)

\* ------------------------------------------------------------------------
\* C11 Each fatal condition (no configuration found, no title enumerated,
\*     requested platform absent) ends the whole run before any title is
\*     launched, with a non-zero exit status and a message, in every driver.
\* ------------------------------------------------------------------------
C11_FatalEndsNonZero ==
    /\ pc = "exited" =>
          /\ exit_status # 0
          /\ message # ""
          /\ attempts = <<>> /\ records = <<>>
    /\ pc = "start" =>
          /\ rom_list # <<>>
          /\ harness # "amiga" => cfg.found /\ systems # <<>>

\* ------------------------------------------------------------------------
\* C16 iter_roms yields every regular file of the ROM directory whose
\*     extension is, letter case ignored, one of the configured ones, and
\*     yields it exactly once, whatever the configured list.
\* ------------------------------------------------------------------------
\* the enumeration of the driver has run
Enumerated == pc = "start" \/ (pc = "exited" /\ message = "no roms")

\* how often a directory entry is among the titles yielded
Yielded(e) == Cardinality({ k \in 1..Len(rom_list) : rom_list[k] = e })

\* e is a regular file whose extension is configured, case ignored, for a
\* selected platform (read from the configuration source as written)
ConfiguredFile(e) ==
    /\ e.isfile
    /\ \E i \in 1..Len(cfg.nodes) :
          /\ \E j \in 1..Len(systems) : systems[j].name = cfg.nodes[i].name
          /\ \E k \in 1..Len(cfg.nodes[i].extension) :
                LowerStem(cfg.nodes[i].extension[k].stem) = LowerStem(e.suffix)

C16_EachMatchingFileOnce ==
    (harness = "generic" /\ Enumerated) =>
        \A n \in 1..Len(fs.entries) :
            Yielded(fs.entries[n]) = IF ConfiguredFile(fs.entries[n]) THEN 1 ELSE 0

\* ------------------------------------------------------------------------
\* C18 Every platform configuration produced from the configuration source
\*     has only lower-case, dot-prefixed extensions and an absolute ROM
\*     directory, for every input.
\* ------------------------------------------------------------------------
C18_ConfigNormalised ==
    \A j \in 1..Len(systems) :
        /\ \A k \in 1..Len(systems[j].ext) :
              /\ systems[j].ext[k].dot
              /\ systems[j].ext[k].stem = LowerStem(systems[j].ext[k].stem)
        /\ IsAbsolute(systems[j].rom_dir)

\* ------------------------------------------------------------------------
\* C12 The reaper runs after every attempt, passed or failed, direct or
\*     fallback: between the end of an attempt and the next launch, and
\*     before the title is done, the process table has been scanned.
\* ------------------------------------------------------------------------
C12_ScanAfterEveryAttempt ==
    /\ ( pc \in {"wait", "cand"} /\ att.terminal # "none" ) => scanned
    /\ ( pc = "done" /\ att.terminal # "none" ) => scanned

\* ------------------------------------------------------------------------
\* C13 While the child of a title is in flight no emulator process of an
\*     earlier title (its child or a descendant) is alive: one title is in
\*     flight at any time, also after a wrapper that forked the emulator
\*     and after a timeout.
\* ------------------------------------------------------------------------
C13_OneTitleInFlight == ( harness \in Batch /\ pc = "wait" ) => ~stray

\* ------------------------------------------------------------------------
\* C14 A stuck child is ended by escalation: SIGKILL goes to the own child
\*     only after an interrupt was sent and the grace period ran out; a
\*     child that has exited gets no signal; a child still alive when the
\*     attempt ends is never left running.
\* ------------------------------------------------------------------------
\* the attempt and its cleanup are over
AttemptOver == harness \in Batch /\ att.terminal # "none" /\ pc \in {"start", "done"}

C14_EscalationOrder ==
    AttemptOver =>
        /\ (\E k \in 1..Len(sigs) : sigs[k] = "KILL") => sigs = <<"INT", "KILL">>
        /\ ~StillAliveAtDeadline => sigs = <<>>
        /\ StillAliveAtDeadline => sigs \in { <<"INT">>, <<"INT", "KILL">> }

\* ------------------------------------------------------------------------
\* C15 One result record per title, however many launches were made for it,
\*     and the record carries the title's final verdict (PASS if an attempt
\*     passed, else the final FAIL).
\* ------------------------------------------------------------------------
\* the titles whose per-title call has returned
TitlesReturned == IF pc = "done" THEN idx ELSE idx - 1

AttemptInFlight == pc \in {"direct", "cand", "wait", "cleanup"}

C17_EveryAttemptReturns ==
    AttemptInFlight ~> (pc \in {"start", "done", "raised"})

\* ------------------------------------------------------------------------
\* C20 The archive fallback is entered only when the title is an archive
\*     and its direct attempt failed: after a passing direct attempt nothing
\*     is extracted or launched, and a title that is no archive goes from a
\*     failing direct attempt straight to the end with a failure.
\* ------------------------------------------------------------------------
C20_FallbackOnlyAfterFailedArchive ==
    harness \in Rcg =>
        /\ ( attempts # <<>> /\ attempts[1].passed ) =>
              /\ Len(attempts) = 1
              /\ images = <<>> /\ scratch = {}
              /\ pc = "done" /\ ret = 0
        /\ ( rom.kind = "notzip" /\ attempts # <<>> /\ ~attempts[1].passed ) =>
              /\ Len(attempts) = 1
              /\ images = <<>> /\ scratch = {}
              /\ pc = "done" /\ ret # 0
        /\ ( rom.kind # "zip" /\ attempts # <<>> ) => Len(attempts) = 1
        /\ Len(attempts) >= 2 => rom.kind = "zip" /\ ~attempts[1].passed

C20_Witness ==
    /\ harness = "rcg1"
    /\ pc = "done"
    /\ rom.kind = "notzip"
    /\ attempts # <<>> /\ ~attempts[1].passed
    /\ att.code = 0
    /\ ret = 1

\* ------------------------------------------------------------------------
\* C19 Two runs over the same unchanged title set with an emulator stub
\*     that behaves the same in both produce the same sequence of result
\*     records (titles, order, status, reason), for every combination of
\*     driver options.
\* ------------------------------------------------------------------------
BothRunsDone == pc = "ran" /\ run = 2

\* C19 as claimed
C19_RunsRepeat == BothRunsDone => records = first_records

\* a row without the name of the temporary log file
Verdicts(rows) ==
    [k \in 1..Len(rows) |->
        [title |-> rows[k].title, status |-> rows[k].status,
         reason |-> rows[k].reason]]

\* C19 as amended: the rows repeat unless -r is given with -n; with -r each
\* run tests min(N, all) distinct titles drawn at random, and a title tested
\* in both runs gets the same status and reason; the detail of an Amiga row
\* also names a temporary log file, which differs from run to run
C19_RunsRepeatUnlessRandom ==
    BothRunsDone =>
        /\ ~(opts.random /\ opts.num # 0) =>
              Verdicts(records) = Verdicts(first_records)
        /\ harness # "amiga" =>
              \A k \in 1..Len(records) : records[k].logname = ""
        /\ Len(records) = Len(first_records)
        /\ Len(records) = (IF opts.num = 0 THEN MaxTitles
                           ELSE Min(opts.num, MaxTitles))
        /\ \A i, j \in 1..Len(records) :
              i # j => records[i].title # records[j].title
        /\ \A i \in 1..Len(records), j \in 1..Len(first_records) :
              records[i].title = first_records[j].title =>
                 /\ records[i].status = first_records[j].status
                 /\ records[i].reason = first_records[j].reason

C19_Witness ==
    /\ BothRunsDone
    /\ harness = "c64batch"
    /\ opts = [num |-> 1, random |-> FALSE]
    /\ records = first_records
    /\ Len(records) = 1
    /\ records[1].status = "FAIL"
    /\ records[1].reason = "Error"


\* ------------------------------------------------------------------------
\* Vocabulary of the properties: extraction
\* ------------------------------------------------------------------------
\* _extract_supported_images was called for the title and opening or
\* extracting the archive failed: the file is no archive, cannot be read,
\* or an entry failed to extract.
ExtractionFailed ==
    /\ harness = "rcg1"
    /\ attempts # <<>> /\ ~attempts[1].passed
    /\ pc # "direct"
    /\ (fault # "none" \/ rom.kind \in {"notzip", "unreadable"})

\* ------------------------------------------------------------------------
\* C21 A failure while the archive is opened or extracted is caught and
\*     ends like an archive without a recognized image: run_c64_game
\*     returns its "no image" failure, no exception leaves it and nothing
\*     the failed extraction produced is launched.
\* ------------------------------------------------------------------------
C21_ExtractionFailureIsNoImage ==
    ExtractionFailed =>
        /\ pc = "done" /\ exc = "none"
        /\ msg = "no image"
        /\ ret = (IF att.code = 0 THEN 1 ELSE att.code)
        /\ Len(attempts) = 1
        /\ images = <<>>


\* ------------------------------------------------------------------------
\* Vocabulary of the properties: the cleanup
\* ------------------------------------------------------------------------
Reapers == {"c64auto", "amiga"}

\* The reaper of the current attempt is under way.
Reaping == harness \in Reapers /\ pc \in {"poll", "recheck", "list", "inspect", "kill"}

\* The status and detail the attempt computed before its cleanup.
ComputedBeforeCleanup ==
    IF harness = "c64auto" THEN c64_run_one_result(proc)
    ELSE test_rom_result(proc, log)

\* The latest attempt has returned its row to the driver.
AttemptReturned == harness \in Reapers /\ pc \in {"start", "done"} /\ records # <<>>

\* ------------------------------------------------------------------------
\* C22 Cleanup never changes a verdict: from the moment status and detail
\*     are computed, through the signals to the child, the poll loop and the
\*     kill sweep, they stay as computed, and the row returned for the
\*     attempt carries exactly them; also when the child had to be killed
\*     after the grace period and when a PermissionError was swallowed.
\* ------------------------------------------------------------------------
C22_CleanupKeepsVerdict ==
    /\ (harness \in Reapers /\ pc = "cleanup") \/ Reaping \/ AttemptReturned
          => att = ComputedBeforeCleanup
    /\ AttemptReturned =>
          /\ records[Len(records)].status = ComputedBeforeCleanup.status
          /\ records[Len(records)].reason = ComputedBeforeCleanup.reason

\* A PASS returned after the child ignored SIGINT for the grace period and
\* the sweep was denied a signal.
C22_Witness ==
    /\ AttemptReturned
    /\ sigs = <<"INT", "KILL">>
    /\ denied
    /\ records[Len(records)].status = "PASS"

\* ------------------------------------------------------------------------
\* C23 The reaper is bounded: the poll loop sleeps for at most max_wait
\*     seconds, at most one kill sweep is made per cleanup, no title is
\*     begun while it runs, and once begun it is always left again, also
\*     when a matching process stays for ever.
\* ------------------------------------------------------------------------
C23_ReaperBounded ==
    /\ [](/\ waited <= 2 * max_wait
          /\ sweeps <= 1
          /\ Reaping => Len(records) = idx - 1)
    /\ (Reaping ~> ~Reaping)

\* wait_until_idle has returned after the whole wait and one sweep, with a
\* matching process still there.
C23_Witness ==
    /\ harness = "c64auto"
    /\ AttemptReturned
    /\ waited = 2 * max_wait
    /\ sweeps = 1
    /\ "stuck" \in table

\* ------------------------------------------------------------------------
\* C26 The kill sweep never raises, whatever the other processes do while
\*     it runs: a process that exits between being listed or inspected and
\*     being signalled does not keep the sweep from finishing.
\* ------------------------------------------------------------------------
C26_SweepNeverRaises == ~(pc = "raised" /\ exc = "OSError:kill")


\* ------------------------------------------------------------------------
\* C24 Enumerating the titles of a platform whose ROM directory does not
\*     exist yields the empty sequence and raises nothing, in each of the
\*     four enumerators.
\* ------------------------------------------------------------------------
\* the driver has called its enumerator: the title loop has begun, or the
\* driver gave up at or right after the enumeration
EnumeratorCalled ==
    \/ pc = "start"
    \/ /\ pc = "exited"
       /\ systems # <<>> \/ harness = "amiga"
       /\ message \in {"no roms", "FileNotFoundError"}

C24_MissingDirYieldsNothing ==
    (EnumeratorCalled /\ ~fs.exists) =>
        /\ rom_list = <<>>
        /\ message # "FileNotFoundError"


\* ------------------------------------------------------------------------
\* C25 Every candidate path _extract_supported_images returns names a file
\*     the extraction wrote in the scratch directory, for entries at the
\*     archive root and for entries inside internal sub-directories, so
\*     every fallback launch is given an existing image.
\* ------------------------------------------------------------------------
C25_CandidatesWereWritten ==
    harness = "rcg1" =>
        /\ \A k \in 1..Len(images) : images[k] \in scratch
        /\ \A k \in 2..Len(LaunchedPaths) : LaunchedPaths[k] \in scratch

=============================================================================
